---------------------------- MODULE Spec2Model ----------------------------
(* GOYN reporting platform (src/app.py): the report store, the save path,  *)
(* the rendered pages, the review page and the CSV export.                 *)
EXTENDS Integers, Sequences, FiniteSets, TLC

(***************************************************************************)
(* Bounds of the model.                                                    *)
(***************************************************************************)
\* number of POST /save requests explored
MaxSaves == 2
\* the wall clock, in half seconds, read by datetime.now()
MaxTick == 2

(***************************************************************************)
(* CONFIG: the document loaded from config.json at import time.            *)
(***************************************************************************)
active_year == "2024"
communities == <<"Acme">>
years == <<"2023", "2024">>
periods == <<"Annual Total">>
app_title == "GOYN"

sections ==
  << [id |-> "demo", name |-> "Demographics", description |-> "People reached",
      indicators |->
        << [id |-> "pop_male",  name |-> "Male",  unit |-> "count", derived |-> FALSE],
           [id |-> "pop_total", name |-> "Total", unit |-> "count", derived |-> TRUE] >>],
     [id |-> "notes", name |-> "Notes", description |-> "Free text",
      indicators |->
        << [id |-> "remarks", name |-> "Remarks", unit |-> "Text", derived |-> FALSE] >>] >>

\* for s in CONFIG["sections"]: for i in s["indicators"]: the catalog in
\* declaration order
RECURSIVE DeclaredFrom(_)
DeclaredFrom(k) ==
  IF k > Len(sections) THEN <<>> ELSE sections[k].indicators \o DeclaredFrom(k + 1)

Declared == DeclaredFrom(1)

\* ids for which the row template's endswith('_male' / '_female' / '_nb') test holds
SexSuffixed == {"pop_male"}

(***************************************************************************)
(* Request inputs.  Each specification draws its requests from one of the  *)
(* records below: CatalogIn ranges over the keys (known and unknown        *)
(* communities, sections and indicators), StoreIn over what is written to  *)
(* one key (values, units, times), SyncIn over the writes that run beside  *)
(* the background syncs.                                                   *)
(***************************************************************************)
NoCommunity == "Select Community"
Ticks == 1..MaxTick

CatalogIn ==
  [community |-> {"Acme", "Nowhere"},
   page_community |-> {"Acme"},
   year |-> {"2024", "2023"},
   period |-> {"Annual Total"},
   section_id |-> {"demo", "notes", "ghost"},
   indicator_id |-> {"pop_male", "pop_total", "remarks", "legacy"},
   value |-> {"", "10"},
   unit |-> {"count"},
   now |-> {1}]

StoreIn ==
  [community |-> {"Acme"},
   page_community |-> {"Acme"},
   year |-> {"2024", "2023"},
   period |-> {"Annual Total"},
   section_id |-> {"demo"},
   indicator_id |-> {"pop_male", "legacy"},
   value |-> {"", "10", "7"},
   unit |-> {"count", "Text"},
   now |-> Ticks]

SyncIn ==
  [community |-> {"Acme"},
   page_community |-> {"Acme"},
   year |-> {"2024", "2023"},
   period |-> {"Annual Total"},
   section_id |-> {"demo"},
   indicator_id |-> {"pop_male", "legacy"},
   value |-> {"10", ""},
   unit |-> {"count"},
   now |-> {1}]

(***************************************************************************)
(* State.                                                                  *)
(***************************************************************************)
VARIABLES
  reports,        \* rows of table reports
  sheetsEnabled,  \* CONFIG["google_sheets"]["enabled"]
  threads,        \* background sync threads started so far
  sheet,          \* the external spreadsheet (sheet1)
  nsaves,         \* POST /save requests served
  request,        \* the request served last
  response        \* and the response it got

vars == <<reports, sheetsEnabled, threads, sheet, nsaves, request, response>>

Range(s) == {s[i] : i \in DOMAIN s}

(***************************************************************************)
(* Time formatting.                                                        *)
(***************************************************************************)
TicksPerSecond == 2
\* strftime("%Y-%m-%d %H:%M:%S"): the clock cut to whole seconds
strftime_seconds(now) == now \div TicksPerSecond
\* strftime("%Y-%m-%d"): the clock cut to the day (here: one day = 2 seconds)
SecondsPerDay == 2
strftime_date(now) == now \div (TicksPerSecond * SecondsPerDay)

(***************************************************************************)
(* Report store.                                                           *)
(***************************************************************************)
Row(c, y, p, i, v, u, t) ==
  [community |-> c, year |-> y, period |-> p, indicator_id |-> i,
   value |-> v, unit |-> u, last_updated |-> t]

\* WHERE community=? AND year=? AND period=? AND indicator_id=?
RowsAtKey(db, c, y, p, i) ==
  {r \in db : r.community = c /\ r.year = y /\ r.period = p /\ r.indicator_id = i}

\* WHERE community=? AND year=? AND period=?
RowsAtPrefix(db, c, y, p) ==
  {r \in db : r.community = c /\ r.year = y /\ r.period = p}

get_value_sql(db, c, y, p, i) ==
  LET found == RowsAtKey(db, c, y, p, i)
  IN  IF found = {} THEN "" ELSE (CHOOSE r \in found : TRUE).value

\* a plain INSERT, no conflict clause
InsertPlain(db, row) == db \cup {row}

\* INSERT OR IGNORE: on conflict the old row stays
InsertOrIgnore(db, row) ==
  IF RowsAtKey(db, row.community, row.year, row.period, row.indicator_id) = {}
  THEN db \cup {row} ELSE db

\* INSERT ... ON CONFLICT(community, year, period, indicator_id) DO UPDATE SET
\* value, unit, last_updated
InsertOnConflictUpdate(db, row) ==
  (db \ RowsAtKey(db, row.community, row.year, row.period, row.indicator_id))
    \cup {row}

\* a thread is started whatever the configuration says
sync_always(th, enabled) == Append(th, [pc |-> "read", df |-> <<>>])

sync_to_google_background(th, enabled) ==
  IF ~enabled THEN th
  ELSE Append(th, [pc |-> "read", df |-> <<>>])

\* the year guard left out
upsert_unguarded(db, th, enabled, c, y, p, i, v, u, now) ==
  [reports |-> InsertOnConflictUpdate(db, Row(c, y, p, i, v, u, strftime_seconds(now))),
   threads |-> sync_to_google_background(th, enabled)]

upsert_value_sql(db, th, enabled, c, y, p, i, v, u, now) ==
  IF y # active_year THEN [reports |-> db, threads |-> th]
  ELSE [reports |-> InsertOnConflictUpdate(db, Row(c, y, p, i, v, u, strftime_seconds(now))),
        threads |-> sync_to_google_background(th, enabled)]

(***************************************************************************)
(* Templates.                                                              *)
(***************************************************************************)
\* next((s for s in CONFIG["sections"] if s["id"] == section_id), CONFIG["sections"][0])
FindSection(section_id) ==
  IF \E k \in DOMAIN sections : sections[k].id = section_id
  THEN sections[CHOOSE k \in DOMAIN sections :
                  /\ sections[k].id = section_id
                  /\ \A j \in DOMAIN sections : sections[j].id = section_id => k <= j]
  ELSE sections[1]

\* ROW_HTML_STR
RowHtml(ind, value, c, y, p, section_id, editable, saved) ==
  [label |-> ind.name,
   hidden |-> [community |-> c, year |-> y, period |-> p, section_id |-> section_id,
               indicator_id |-> ind.id, unit |-> ind.unit],
   autosum |-> editable /\ ~ind.derived /\ ind.id \in SexSuffixed,
   type |-> IF ind.unit = "Text" THEN "text" ELSE "number",
   value |-> value,
   locked |-> ~editable,
   disabled |-> (~editable \/ ind.derived),
   saved |-> saved]

\* the loop of index and switch over section["indicators"], then INTERFACE_HTML
InterfaceHtml(db, c, y, p, section_id) ==
  LET section == FindSection(section_id)
      editable == (y = active_year)
  IN  [tabs |-> [k \in DOMAIN sections |->
                   [id |-> sections[k].id, name |-> sections[k].name,
                    active |-> sections[k].id = section_id]],
       title |-> section.name,
       description |-> section.description,
       rows |-> [k \in DOMAIN section.indicators |->
                   RowHtml(section.indicators[k],
                           get_value_sql(db, c, y, p, section.indicators[k].id),
                           c, y, p, section_id, editable, FALSE)]]

\* BASE_HTML
BaseHtml(c, y, p, interface, editable) ==
  [title |-> app_title,
   selected |-> [community |-> {x \in Range(communities) : x = c},
                 year |-> {x \in Range(years) : x = y},
                 period |-> {x \in Range(periods) : x = p}],
   welcome |-> (c = NoCommunity),
   readonly_badge |-> (c # NoCommunity /\ ~editable),
   review_link |-> (c # NoCommunity /\ editable),
   interface |-> IF c = NoCommunity THEN <<>> ELSE <<interface>>]

Req(op, c, y, p, s, i, v, u, now) ==
  [op |-> op, community |-> c, year |-> y, period |-> p, section_id |-> s,
   indicator_id |-> i, value |-> v, unit |-> u, now |-> now]

(***************************************************************************)
(* Initial state.                                                          *)
(***************************************************************************)
\* the database file outlives the process (CREATE TABLE IF NOT EXISTS)
SeedHistoric ==
  { Row("Acme", "2023", "Annual Total", "pop_male", "5", "count", 0),
    Row("Acme", "2023", "Annual Total", "remarks", "", "Text", 0),
    Row("Acme", "2023", "Annual Total", "legacy", "3", "count", 0) }

SeedCurrent ==
  { Row("Acme", "2024", "Annual Total", "pop_male", "12", "count", 0),
    Row("Acme", "2024", "Annual Total", "remarks", "fine", "Text", 0) }

SeedSync == { Row("Acme", "2023", "Annual Total", "pop_male", "5", "count", 0) }

InitStores == { {}, SeedHistoric \cup SeedCurrent }

Init ==
  /\ reports \in InitStores
  /\ sheetsEnabled \in BOOLEAN
  /\ threads = <<>>
  /\ sheet = <<>>
  /\ nsaves = 0
  /\ request = Req("none", "", "", "", "", "", "", "", 0)
  /\ response = [status |-> 0, body |-> <<>>]

InitSync ==
  /\ reports \in { {}, SeedSync }
  /\ sheetsEnabled \in BOOLEAN
  /\ threads = <<>>
  /\ sheet = <<>>
  /\ nsaves = 0
  /\ request = Req("none", "", "", "", "", "", "", "", 0)
  /\ response = [status |-> 0, body |-> <<>>]

(***************************************************************************)
(* Routes.                                                                 *)
(***************************************************************************)
\* GET /
index(c, y, p, s) ==
  /\ request' = Req("index", c, y, p, s, "", "", "", 0)
  /\ response' =
       [status |-> 200,
        body |-> IF c = NoCommunity
                 THEN BaseHtml(c, y, p, <<>>, FALSE)
                 ELSE BaseHtml(c, y, p, InterfaceHtml(reports, c, y, p, s),
                               y = active_year)]
  /\ UNCHANGED <<reports, sheetsEnabled, threads, sheet, nsaves>>

\* GET /switch
switch(c, y, p, s) ==
  /\ request' = Req("switch", c, y, p, s, "", "", "", 0)
  /\ response' = [status |-> 200, body |-> InterfaceHtml(reports, c, y, p, s)]
  /\ UNCHANGED <<reports, sheetsEnabled, threads, sheet, nsaves>>

\* POST /save
save(c, y, p, s, i, v, u, now) ==
  /\ nsaves < MaxSaves
  /\ nsaves' = nsaves + 1
  /\ LET after == upsert_value_sql(reports, threads, sheetsEnabled, c, y, p, i, v, u, now)
         section == FindSection(s)
         defs == {k \in DOMAIN section.indicators : section.indicators[k].id = i}
     IN  /\ reports' = after.reports
         /\ threads' = after.threads
         /\ request' = Req("save", c, y, p, s, i, v, u, now)
         /\ response' =
              IF defs = {}
              THEN \* ind_def is None and dict(None) raises TypeError
                   [status |-> 500, body |-> <<"TypeError">>]
              ELSE [status |-> 200,
                    body |-> RowHtml(section.indicators[CHOOSE k \in defs :
                                                          \A j \in defs : k <= j],
                                     v, c, y, p, s, TRUE, TRUE)]
  /\ UNCHANGED <<sheetsEnabled, sheet>>

(***************************************************************************)
(* Review and export.                                                      *)
(***************************************************************************)
\* data_map = {row['indicator_id']: row for row in rows_sql}
DataMap(rows_sql) ==
  [i \in {r.indicator_id : r \in rows_sql} |->
     CHOOSE r \in rows_sql : r.indicator_id = i]

\* the rows kept whatever their value
RECURSIVE ReviewIndicatorsUnfiltered(_, _, _)
ReviewIndicatorsUnfiltered(inds, k, data_map) ==
  IF k > Len(inds) THEN <<>>
  ELSE LET ind == inds[k]
           here == IF ind.id \in DOMAIN data_map
                   THEN << [name |-> ind.name, value |-> data_map[ind.id].value,
                            unit |-> ind.unit] >>
                   ELSE <<>>
       IN  here \o ReviewIndicatorsUnfiltered(inds, k + 1, data_map)

\* for ind in section["indicators"]: from the k-th indicator on
RECURSIVE ReviewIndicators(_, _, _)
ReviewIndicators(inds, k, data_map) ==
  IF k > Len(inds) THEN <<>>
  ELSE LET ind == inds[k]
           here == IF ind.id \in DOMAIN data_map /\ data_map[ind.id].value # ""
                   THEN << [name |-> ind.name, value |-> data_map[ind.id].value,
                            unit |-> ind.unit] >>
                   ELSE <<>>
       IN  here \o ReviewIndicators(inds, k + 1, data_map)

\* for section in CONFIG["sections"]: from the k-th section on
RECURSIVE ReviewSections(_, _)
ReviewSections(k, data_map) ==
  IF k > Len(sections) THEN <<>>
  ELSE ReviewIndicators(sections[k].indicators, 1, data_map)
         \o ReviewSections(k + 1, data_map)

\* GET /review
review(c, y, p, now) ==
  /\ request' = Req("review", c, y, p, "", "", "", "", now)
  /\ LET display_rows == ReviewSections(1, DataMap(RowsAtPrefix(reports, c, y, p)))
     IN  response' =
           [status |-> 200,
            body |-> [community |-> c, year |-> y, period |-> p,
                      today |-> strftime_date(now),
                      rows |-> display_rows,
                      download_link |-> (display_rows # <<>>)]]
  /\ UNCHANGED <<reports, sheetsEnabled, threads, sheet, nsaves>>

\* id_to_name (a later indicator of the same id replaces an earlier one), and
\* Series.map(id_to_name) as to_csv writes it: no name, an empty field
IndicatorName(i) ==
  LET hits == {k \in DOMAIN Declared : Declared[k].id = i}
  IN  IF hits = {} THEN ""
      ELSE Declared[CHOOSE k \in hits : \A j \in hits : j <= k].name

CsvHeader ==
  <<"community", "year", "period", "indicator_id", "indicator_name", "value", "unit">>

CsvLine(r) ==
  <<r.community, r.year, r.period, r.indicator_id, IndicatorName(r.indicator_id),
    r.value, r.unit>>

\* the orders in which a SELECT without ORDER BY may return rows
Orderings(rows) ==
  {f \in [1..Cardinality(rows) -> rows] : \A a, b \in DOMAIN f : f[a] = f[b] => a = b}

\* rows with an empty value left out, as review does
to_csv_nonempty(df) == <<CsvHeader>> \o SelectSeq([k \in DOMAIN df |-> CsvLine(df[k])],
                                                  LAMBDA l : l[6] # "")

\* df.to_csv(index=False)
to_csv(df) == <<CsvHeader>> \o [k \in DOMAIN df |-> CsvLine(df[k])]

\* GET /download_report
download_report(c, y, p) ==
  /\ request' = Req("download_report", c, y, p, "", "", "", "", 0)
  /\ \E df \in Orderings(RowsAtPrefix(reports, c, y, p)) :
       response' = [status |-> 200,
                    body |-> [filename |-> <<"GOYN_Report", c, y, p>>,
                              csv |-> to_csv(df)]]
  /\ UNCHANGED <<reports, sheetsEnabled, threads, sheet, nsaves>>

(***************************************************************************)
(* Background sync (_run_sync), one step per statement that reads the      *)
(* store or writes the spreadsheet.                                        *)
(***************************************************************************)
SheetHeader ==
  <<"community", "year", "period", "indicator_id", "value", "unit", "last_updated">>

SheetLine(r) ==
  <<r.community, r.year, r.period, r.indicator_id, r.value, r.unit, r.last_updated>>

\* sheet.update(values): the range starting at A1 is overwritten, rows below
\* it are left as they are
SheetUpdate(old, values) ==
  [k \in 1..(IF Len(old) > Len(values) THEN Len(old) ELSE Len(values)) |->
     IF k <= Len(values) THEN values[k] ELSE old[k]]

\* df = pd.read_sql_query("SELECT * FROM reports", conn)
SyncRead(t) ==
  /\ threads[t].pc = "read"
  /\ \E df \in Orderings(reports) :
       threads' = [threads EXCEPT ![t] = [pc |-> "clear", df |-> df]]
  /\ UNCHANGED <<reports, sheetsEnabled, sheet, nsaves, request, response>>

\* sheet.clear()
SyncClear(t) ==
  /\ threads[t].pc = "clear"
  /\ sheet' = <<>>
  /\ threads' = [threads EXCEPT ![t].pc = "update"]
  /\ UNCHANGED <<reports, sheetsEnabled, nsaves, request, response>>

\* sheet.update([df.columns.values.tolist()] + df.values.tolist())
SyncUpdate(t) ==
  /\ threads[t].pc = "update"
  /\ sheet' = SheetUpdate(sheet, <<SheetHeader>> \o
                                  [k \in DOMAIN threads[t].df |->
                                     SheetLine(threads[t].df[k])])
  /\ threads' = [threads EXCEPT ![t].pc = "done"]
  /\ UNCHANGED <<reports, sheetsEnabled, nsaves, request, response>>

\* except Exception: an import, the credentials or a call of the API fails
SyncError(t) ==
  /\ threads[t].pc \in {"read", "clear", "update"}
  /\ threads' = [threads EXCEPT ![t].pc = "failed"]
  /\ UNCHANGED <<reports, sheetsEnabled, sheet, nsaves, request, response>>

\* the page, review and export requests drawn from the input sets In
Reads(In) ==
  \/ \E c \in In.page_community \cup {NoCommunity}, y \in In.year, p \in In.period,
        s \in In.section_id : index(c, y, p, s)
  \/ \E c \in In.page_community, y \in In.year, p \in In.period,
        s \in In.section_id : switch(c, y, p, s)
  \/ \E c \in In.page_community, y \in In.year, p \in In.period, now \in In.now :
        review(c, y, p, now)
  \/ \E c \in In.page_community, y \in In.year, p \in In.period :
        download_report(c, y, p)

\* the save requests drawn from the input sets In
Writes(In) ==
  \E c \in In.community, y \in In.year, p \in In.period, s \in In.section_id,
     i \in In.indicator_id, v \in In.value, u \in In.unit, now \in In.now :
     save(c, y, p, s, i, v, u, now)

Next == Reads(CatalogIn) \/ Writes(CatalogIn)

NextStore == Reads(StoreIn) \/ Writes(StoreIn)

\* the writers and the background syncs they start
NextSync ==
  \/ Writes(SyncIn)
  \/ \E t \in DOMAIN threads : SyncRead(t)
  \/ \E t \in DOMAIN threads : SyncClear(t)
  \/ \E t \in DOMAIN threads : SyncUpdate(t)
  \/ \E t \in DOMAIN threads : SyncError(t)

Spec == Init /\ [][Next]_vars

SpecStore == Init /\ [][NextStore]_vars

SpecSync == InitSync /\ [][NextSync]_vars

(***************************************************************************)
(* Properties.                                                             *)
(***************************************************************************)
\* a POST /save has just been served
Saved == nsaves' = nsaves + 1

\* the row the request served last would write
RequestRow(req) ==
  Row(req.community, req.year, req.period, req.indicator_id, req.value, req.unit,
      strftime_seconds(req.now))

KeyRows(db, req) ==
  RowsAtKey(db, req.community, req.year, req.period, req.indicator_id)

\* the section the save path looks the indicator up in holds it
InSection(section_id, indicator_id) ==
  \E k \in DOMAIN FindSection(section_id).indicators :
     FindSection(section_id).indicators[k].id = indicator_id

\* C1: after an upsert whose year is the active year, get with the same key
\* returns exactly the written value, whatever the store held before.
C1_WriteThenRead ==
  (request.op = "save" /\ request.year = active_year) =>
    get_value_sql(reports, request.community, request.year, request.period,
                  request.indicator_id) = request.value

\* a seeded store, whose pop_male entry has been overwritten with "7"
C1_Witness ==
  /\ request.op = "save" /\ request.year = active_year
  /\ request.indicator_id = "pop_male" /\ request.value = "7"
  /\ Row("Acme", "2024", "Annual Total", "remarks", "fine", "Text", 0) \in reports
  /\ get_value_sql(reports, "Acme", "2024", "Annual Total", "pop_male") = "7"

\* C2: an upsert whose year is not the active year raises no error, leaves the
\* whole store unchanged, and a following get returns the pre-existing value.
C2_StaleYearNoOp ==
  [][ (Saved /\ request'.year # active_year) =>
        /\ reports' = reports
        /\ get_value_sql(reports', request'.community, request'.year,
                         request'.period, request'.indicator_id)
             = get_value_sql(reports, request'.community, request'.year,
                             request'.period, request'.indicator_id)
        /\ (InSection(request'.section_id, request'.indicator_id)
              => response'.status = 200) ]_vars

\* a rejected write of "7" over the 2023 entry, which still reads "5"
C2_Witness ==
  /\ request.op = "save" /\ request.year = "2023"
  /\ request.indicator_id = "pop_male" /\ request.value = "7"
  /\ response.status = 200
  /\ get_value_sql(reports, "Acme", "2023", "Annual Total", "pop_male") = "5"

\* C3: at most one entry per key in every state; a successful upsert to k leaves
\* exactly one entry at k, holding its value, unit and timestamp, and the entry
\* at k changes in no other step.
C3_OneEntryPerKey ==
  [][ \A r \in reports \cup reports' \cup {RequestRow(request')} :
        LET before == RowsAtKey(reports, r.community, r.year, r.period, r.indicator_id)
            after == RowsAtKey(reports', r.community, r.year, r.period, r.indicator_id)
            written == /\ Saved
                       /\ request'.year = active_year
                       /\ KeyRows({r}, request') = {r}
        IN  /\ Cardinality(before) <= 1
            /\ Cardinality(after) <= 1
            /\ IF written THEN after = {RequestRow(request')}
               ELSE after = before ]_vars

\* two saves on an empty store that leave one entry, with the later unit and time
C3_Witness ==
  /\ nsaves = 2
  /\ request.op = "save" /\ request.year = active_year
  /\ request.unit = "Text" /\ request.now = 2
  /\ reports = {Row("Acme", "2024", "Annual Total", "pop_male", "7", "Text", 1)}

\* C4: the rows of review are exactly the configured indicators with a stored
\* non-empty value at the key prefix, in declaration order; absent or empty
\* values and stored ids that are not configured never appear.
C4_ReviewOrder ==
  request.op = "review" =>
    LET stored == RowsAtPrefix(reports, request.community, request.year, request.period)
        filled == {k \in DOMAIN Declared :
                     \E r \in stored : r.indicator_id = Declared[k].id /\ r.value # ""}
        rows == response.body.rows
        \* the declaration position of the j-th row
        pos(j) == CHOOSE k \in filled : Cardinality({m \in filled : m <= k}) = j
    IN  /\ Len(rows) = Cardinality(filled)
        /\ \A j \in DOMAIN rows :
             /\ rows[j].name = Declared[pos(j)].name
             /\ \E r \in stored : /\ r.indicator_id = Declared[pos(j)].id
                                  /\ r.value = rows[j].value

\* of [Male, Total, Remarks], Male is stored with an empty value: review lists
\* Total, then Remarks
C4_Witness ==
  /\ request.op = "review" /\ request.community = "Acme" /\ request.year = "2024"
  /\ get_value_sql(reports, "Acme", "2024", "Annual Total", "pop_male") = ""
  /\ KeyRows(reports, [community |-> "Acme", year |-> "2024",
                       period |-> "Annual Total", indicator_id |-> "pop_male"]) # {}
  /\ Len(response.body.rows) = 2
  /\ response.body.rows[1].name = "Total"
  /\ response.body.rows[2].name = "Remarks"

\* C5: a POST /save whose indicator_id is not in the section used for the lookup
\* ends in a client-error rejection, never in a failure of the rendering step.
C5_UnknownIndicatorRejected ==
  (request.op = "save" /\ ~InSection(request.section_id, request.indicator_id)) =>
    response.status \in 400..499

\* the request names a community, year, period, section and indicator of CONFIG
ValidRequest(req) ==
  /\ req.community \in Range(communities)
  /\ req.year \in Range(years)
  /\ req.period \in Range(periods)
  /\ \E k \in DOMAIN sections : sections[k].id = req.section_id
  /\ \E k \in DOMAIN Declared : Declared[k].id = req.indicator_id

\* C6: validation precedes the store: a POST /save that names an unknown
\* community, period, section or indicator leaves the store unchanged.
C6_ValidationBeforeStore ==
  [][ (Saved /\ ~ValidRequest(request')) => reports' = reports ]_vars

\* C7: no save request whose indicator_id names a derived indicator creates or
\* modifies an entry.
C7_DerivedNeverWritten ==
  [][ (Saved /\ \E k \in DOMAIN Declared : /\ Declared[k].id = request'.indicator_id
                                          /\ Declared[k].derived)
        => reports' = reports ]_vars

\* C8: download_report emits the header row, then exactly one data row per
\* stored entry at the key prefix, empty values and unconfigured ids included.
C8_CsvRows ==
  request.op = "download_report" =>
    LET stored == RowsAtPrefix(reports, request.community, request.year, request.period)
        csv == response.body.csv
    IN  /\ Len(csv) = 1 + Cardinality(stored)
        /\ csv[1] = CsvHeader
        /\ \A r \in stored :
             Cardinality({k \in 2..Len(csv) :
                            /\ csv[k][1] = r.community /\ csv[k][2] = r.year
                            /\ csv[k][3] = r.period /\ csv[k][4] = r.indicator_id
                            /\ csv[k][6] = r.value /\ csv[k][7] = r.unit}) = 1

\* an export of the 2023 entries, one of them empty and one not configured
C8_Witness ==
  /\ request.op = "download_report" /\ request.year = "2023"
  /\ SeedHistoric \subseteq reports
  /\ Len(response.body.csv) = 4

\* an export of a key prefix that holds nothing: the header alone
C8_WitnessEmpty ==
  /\ request.op = "download_report"
  /\ RowsAtPrefix(reports, request.community, request.year, request.period) = {}
  /\ response.body.csv = <<CsvHeader>>

\* C9: for a year that is not the active year, every rendered field is disabled
\* and no review/submit action is offered, on GET /, GET /switch and POST /save.
C9_ReadOnlyYear ==
  request.year # active_year =>
    /\ (request.op = "index" /\ request.community # NoCommunity) =>
         /\ ~response.body.review_link
         /\ \A k \in DOMAIN response.body.interface[1].rows :
              response.body.interface[1].rows[k].disabled
    /\ request.op = "switch" =>
         \A k \in DOMAIN response.body.rows : response.body.rows[k].disabled
    /\ (request.op = "save" /\ response.status = 200) => response.body.disabled

\* C9 on the two paths that render a section
C9_ReadOnlyPages ==
  request.year # active_year =>
    /\ (request.op = "index" /\ request.community # NoCommunity) =>
         /\ ~response.body.review_link
         /\ \A k \in DOMAIN response.body.interface[1].rows :
              response.body.interface[1].rows[k].disabled
    /\ request.op = "switch" =>
         \A k \in DOMAIN response.body.rows : response.body.rows[k].disabled

\* C10 as stated: a sync task is started by every upsert that writes, and by
\* nothing else.
C10_SyncOnEveryWrite ==
  [][ Len(threads') - Len(threads) =
        IF Saved /\ request'.year = active_year THEN 1 ELSE 0 ]_vars

\* C10, amended: with google_sheets.enabled set, every upsert that writes starts
\* one sync task and nothing else starts any; with it unset, none ever starts.
C10_SyncOnWriteWhenEnabled ==
  [][ Len(threads') - Len(threads) =
        IF Saved /\ request'.year = active_year /\ sheetsEnabled THEN 1 ELSE 0 ]_vars

\* two writes with the mirror enabled
C10_Witness ==
  /\ sheetsEnabled /\ nsaves = 2 /\ Len(threads) = 2
  /\ request.op = "save" /\ request.year = active_year

\* a write and a rejected write with the mirror enabled
C10_WitnessRejected ==
  /\ sheetsEnabled /\ nsaves = 2 /\ Len(threads) = 1
  /\ request.op = "save" /\ request.year # active_year

\* the sheet a sync that read df writes when nothing interferes: the column
\* names, then one line per row read
SnapshotOf(df) == <<SheetHeader>> \o [k \in DOMAIN df |-> SheetLine(df[k])]

\* every background sync has run to its end
AllSyncsFinished(th) == \A u \in DOMAIN th : th[u].pc \in {"done", "failed"}

\* C11: under every interleaving of the read, clear and update steps of
\* concurrent syncs and writers, when the last running sync finishes with its
\* update (so it is the sync that wrote last), the spreadsheet holds exactly the
\* complete snapshot that sync read: not an empty sheet, not a mixture of rows
\* of two snapshots.
C11_LastSnapshotWins ==
  [][ \A t \in DOMAIN threads :
        ( /\ threads[t].pc = "update"
          /\ threads'[t].pc = "done"
          /\ AllSyncsFinished(threads') )
        => sheet' = SnapshotOf(threads[t].df) ]_vars

=============================================================================
